---- MODULE Spec2Model ----
(***************************************************************************)
(* Model of pkg/singularity/runtime/sync.go: ObserveState binds a unix     *)
(* socket, starts one goroutine that accepts a connection and hands it to  *)
(* syncOnConn, which decodes a stream of JSON status objects and forwards  *)
(* the mapped State values on an unbuffered channel.                       *)
(*                                                                         *)
(* Processes: the caller (ObserveState, cancel of ctx), the goroutine      *)
(* (pc), the reporting peers (connect, write, close), the consumer of the  *)
(* returned channel.                                                       *)
(***************************************************************************)
EXTENDS Naturals, Sequences, FiniteSets

(* ---------------------------------------------------------------- bounds *)

\* Total number of wire tokens the peers write in one run.
MaxMsgs == 3

(* ------------------------------------------------------------- constants *)

\* sync.go:16-22, State = 1 + iota
StateCreating == 1
StateCreated == 2
StateRunning == 3
StateExited == 4

\* Two peers. The peers are interchangeable, so p1 names the one that connects
\* first; it is the reporting peer and writes any tokens. p2 is a second peer
\* that connects later, writes one status message and waits.
Peers == {"p1", "p2"}
NoPeer == "nobody"
FirstPeer == "p1"

\* What a peer can put on the wire, one token per JSON value:
\*   the four recognized statuses, {"status":"<s>"};
\*   "weird"     {"status":"weird"}: a well-formed object, unrecognized status;
\*   "nostatus"  {} : a well-formed object without a status key;
\*   "malformed" bytes on which dec.Decode returns an error (invalid syntax,
\*               wrong type), first byte neither ']' nor '}';
\*   "closer"    bytes whose first non-space byte is ']' or '}';
\*   "partial"   the beginning of an object, not yet finished by the peer.
Recognized == {"creating", "created", "running", "stopped"}
WithStatus == Recognized \cup {"weird"}
FullTokens == WithStatus \cup {"nostatus", "malformed", "closer"}
Tokens == FullTokens \cup {"partial"}

VARIABLES
    ret,            \* what ObserveState returned: "none" (not called), "chan", "err"
    ctxDone,        \* ctx.Done() is closed
    lnOpen,         \* the listener ln is bound and not yet closed
    pc,             \* position of the goroutine
    shouldExit,     \* value returned by syncOnConn
    conn,           \* the peer whose connection Accept returned, or NoPeer
    connOpen,       \* conn is accepted and conn.Close() has not run
    status,         \* status.Status of syncOnConn
    rd,             \* number of tokens of wire[conn] the decoder has consumed
    sendVal,        \* the State the goroutine is sending, 0 when none
    syncChanClosed, \* close(syncChan) has run
    closeCount,     \* number of close(syncChan) executed
    received,       \* the States the consumer has received, in order
    recvIdx,        \* for each received State, the index in wire[conn] of the
                    \* message whose decoding preceded the send
    backlog,        \* connections made and not yet accepted, in order
    peerSt,         \* per peer: "idle", "open", "closed"
    wire,           \* per peer: the tokens written so far
    acceptCount,    \* number of successful ln.Accept()
    exitReason,     \* which return statement of the goroutine ran
    cancelEarly,    \* cancel happened before the first successful accept
    cancelSeen,     \* syncOnConn's select took the ctx.Done() case
    lateOp          \* a send or a delivery happened on the closed channel

vars == <<ret, ctxDone, lnOpen, pc, shouldExit, conn, connOpen, status, rd,
          sendVal, syncChanClosed, closeCount, received, recvIdx,
          backlog, peerSt, wire, acceptCount, exitReason, cancelEarly,
          cancelSeen, lateOp>>

taskVars == <<pc, shouldExit, conn, connOpen, status, rd, sendVal,
              syncChanClosed, closeCount, acceptCount, exitReason, cancelSeen,
              lnOpen, backlog>>
chanVars == <<received, recvIdx, lateOp>>
peerVars == <<peerSt, wire>>
callerVars == <<ret, ctxDone, cancelEarly>>

(* ---------------------------------------------------------------- helpers *)

\* The bytes of conn not yet consumed by the decoder.
Unread == IF conn = NoPeer THEN <<>> ELSE SubSeq(wire[conn], rd + 1, Len(wire[conn]))

\* The peer end of conn is closed: after the unread bytes comes end of input.
PeerGone == conn # NoPeer /\ peerSt[conn] = "closed"

\* Mutant of StateOf: the case running sends StateExited.
StateOf_RunningExits(s) ==
    CASE s = "creating" -> StateCreating
      [] s = "created"  -> StateCreated
      [] s = "running"  -> StateExited
      [] s = "stopped"  -> StateExited
      [] OTHER          -> 0

\* Mutant of StateOf: the cases created and running exchanged.
StateOf_Swapped(s) ==
    CASE s = "creating" -> StateCreating
      [] s = "created"  -> StateRunning
      [] s = "running"  -> StateCreated
      [] s = "stopped"  -> StateExited
      [] OTHER          -> 0

\* sync.go:84-97, the switch on status.Status: the State sent, 0 for default.
StateOf(s) ==
    CASE s = "creating" -> StateCreating
      [] s = "created"  -> StateCreated
      [] s = "running"  -> StateRunning
      [] s = "stopped"  -> StateExited
      [] OTHER          -> 0

(* ------------------------------------------------------------------- Init *)

Init ==
    /\ ret = "none"
    /\ ctxDone = FALSE
    /\ lnOpen = FALSE
    /\ pc = "none"
    /\ shouldExit = FALSE
    /\ conn = NoPeer
    /\ connOpen = FALSE
    /\ status = ""
    /\ rd = 0
    /\ sendVal = 0
    /\ syncChanClosed = FALSE
    /\ closeCount = 0
    /\ received = <<>>
    /\ recvIdx = <<>>
    /\ backlog = <<>>
    /\ peerSt = [p \in Peers |-> "idle"]
    /\ wire = [p \in Peers |-> <<>>]
    /\ acceptCount = 0
    /\ exitReason = "none"
    /\ cancelEarly = FALSE
    /\ cancelSeen = FALSE
    /\ lateOp = FALSE

(* ----------------------------------------------------------------- caller *)

\* sync.go:32-37,60: net.Listen succeeds, the channel is made, the goroutine
\* is started and (syncChan, nil) is returned.
ObserveStateOk ==
    /\ ret = "none"
    /\ ret' = "chan"
    /\ lnOpen' = TRUE
    /\ pc' = "select"
    /\ UNCHANGED <<ctxDone, cancelEarly, shouldExit, conn, connOpen, status, rd,
                   sendVal, syncChanClosed, closeCount, acceptCount, exitReason,
                   cancelSeen, backlog>>
    /\ UNCHANGED chanVars
    /\ UNCHANGED peerVars

\* Mutant of ObserveStateBindFail: the error is returned but the goroutine is
\* started all the same.
ObserveStateBindFail_Starts ==
    /\ ret = "none"
    /\ ret' = "err"
    /\ pc' = "select"
    /\ UNCHANGED <<ctxDone, cancelEarly>>
    /\ UNCHANGED <<shouldExit, conn, connOpen, status, rd, sendVal,
                   syncChanClosed, closeCount, acceptCount, exitReason,
                   cancelSeen, lnOpen, backlog>>
    /\ UNCHANGED chanVars
    /\ UNCHANGED peerVars

\* sync.go:32-35: net.Listen fails, (nil, error) is returned, nothing starts.
ObserveStateBindFail ==
    /\ ret = "none"
    /\ ret' = "err"
    /\ UNCHANGED <<ctxDone, cancelEarly>>
    /\ UNCHANGED taskVars
    /\ UNCHANGED chanVars
    /\ UNCHANGED peerVars

\* The caller cancels ctx.
Cancel ==
    /\ ~ctxDone
    /\ ctxDone' = TRUE
    /\ cancelEarly' = (acceptCount = 0)
    /\ UNCHANGED ret
    /\ UNCHANGED taskVars
    /\ UNCHANGED chanVars
    /\ UNCHANGED peerVars

(* ------------------------------------------------- goroutine, sync.go:38-59 *)

\* What the goroutine leaves alone in every step.
envUnchanged ==
    /\ UNCHANGED callerVars
    /\ UNCHANGED chanVars
    /\ UNCHANGED peerVars

\* sync.go:43-47: the select of the accept loop. With ctx.Done() closed the
\* first case is ready and is taken (the default case runs only when no other
\* case is ready): return. Otherwise the default case goes on to Accept.
LoopSelect ==
    /\ pc = "select"
    /\ IF ctxDone
       THEN pc' = "lnClose" /\ exitReason' = "cancel"
       ELSE pc' = "accept" /\ UNCHANGED exitReason
    /\ UNCHANGED <<shouldExit, conn, connOpen, status, rd, sendVal,
                   syncChanClosed, closeCount, acceptCount, cancelSeen, lnOpen,
                   backlog>>
    /\ envUnchanged

\* sync.go:48,53,63-70: ln.Accept() returns the oldest pending connection
\* (it blocks while there is none); syncOnConn starts on it with a fresh
\* decoder and a zero statusInfo.
Accept ==
    /\ pc = "accept"
    /\ backlog # <<>>
    /\ conn' = Head(backlog)
    /\ backlog' = Tail(backlog)
    /\ connOpen' = TRUE
    /\ acceptCount' = acceptCount + 1
    /\ status' = ""
    /\ rd' = 0
    /\ pc' = "connSelect"
    /\ UNCHANGED <<shouldExit, sendVal, syncChanClosed, closeCount, exitReason,
                   cancelSeen, lnOpen>>
    /\ envUnchanged

\* Mutant of AcceptFail: the error is logged and the loop goes on to the next
\* iteration instead of returning.
AcceptFail_Retry ==
    /\ pc = "accept"
    /\ pc' = "select"
    /\ exitReason' = "accept"
    /\ UNCHANGED <<shouldExit, conn, connOpen, status, rd, sendVal,
                   syncChanClosed, closeCount, acceptCount, cancelSeen, lnOpen,
                   backlog>>
    /\ envUnchanged

\* sync.go:48-52: ln.Accept() returns an error: log and return.
AcceptFail ==
    /\ pc = "accept"
    /\ pc' = "lnClose"
    /\ exitReason' = "accept"
    /\ UNCHANGED <<shouldExit, conn, connOpen, status, rd, sendVal,
                   syncChanClosed, closeCount, acceptCount, cancelSeen, lnOpen,
                   backlog>>
    /\ envUnchanged

\* Mutant of ConnSelect: syncOnConn's loop without the ctx.Done() case.
ConnSelect_NoCancel ==
    /\ pc = "connSelect"
    /\ pc' = "more"
    /\ UNCHANGED <<shouldExit, cancelSeen>>
    /\ UNCHANGED <<conn, connOpen, status, rd, sendVal, syncChanClosed,
                   closeCount, acceptCount, exitReason, lnOpen, backlog>>
    /\ envUnchanged

\* sync.go:72-76: the select of syncOnConn. With ctx.Done() closed: return
\* false (the deferred conn.Close() runs next). Otherwise the default case.
ConnSelect ==
    /\ pc = "connSelect"
    /\ IF ctxDone
       THEN /\ pc' = "connClose"
            /\ shouldExit' = FALSE
            /\ cancelSeen' = TRUE
       ELSE /\ pc' = "more"
            /\ UNCHANGED <<shouldExit, cancelSeen>>
    /\ UNCHANGED <<conn, connOpen, status, rd, sendVal, syncChanClosed,
                   closeCount, acceptCount, exitReason, lnOpen, backlog>>
    /\ envUnchanged

\* sync.go:77: dec.More(). encoding/json: More peeks at the next non-space
\* byte, reading from the connection until there is one (this blocks while
\* the connection is open and idle), and returns
\*     err == nil && c != ']' && c != '}'
\* so it is false at end of input and on a leading ']' or '}', and true on
\* any other byte; it consumes nothing. On false the loop iterates.
MoreResult ==
    IF Unread = <<>> THEN FALSE ELSE Head(Unread) # "closer"

DecMore ==
    /\ pc = "more"
    /\ Unread # <<>> \/ PeerGone
    /\ pc' = IF MoreResult THEN "decode" ELSE "connSelect"
    /\ UNCHANGED <<shouldExit, conn, connOpen, status, rd, sendVal,
                   syncChanClosed, closeCount, acceptCount, exitReason,
                   cancelSeen, lnOpen, backlog>>
    /\ envUnchanged

\* sync.go:79: dec.Decode(&status) on a well-formed object: the value is
\* consumed; a "status" key overwrites status.Status, an object without one
\* leaves status.Status as it was.
DecodedStatus(tok) == IF tok \in WithStatus THEN tok ELSE status

DecodeOk ==
    /\ pc = "decode"
    /\ Unread # <<>>
    /\ Head(Unread) \in WithStatus \cup {"nostatus"}
    /\ status' = DecodedStatus(Head(Unread))
    /\ rd' = rd + 1
    /\ pc' = "switch"
    /\ UNCHANGED <<shouldExit, conn, connOpen, sendVal, syncChanClosed,
                   closeCount, acceptCount, exitReason, cancelSeen, lnOpen,
                   backlog>>
    /\ envUnchanged

\* Mutant of DecodeFailReturn: return false on a decode error.
DecodeFailReturn_False == FALSE

\* sync.go:79-83: dec.Decode returns an error: invalid bytes, or the input
\* ends inside a value (Decode blocks on an unfinished value while the peer
\* is still connected). Log and return true.
DecodeFailReturn == TRUE

DecodeFail ==
    /\ pc = "decode"
    /\ Unread # <<>>
    /\ \/ Head(Unread) = "malformed"
       \/ Head(Unread) = "partial" /\ PeerGone
    /\ shouldExit' = DecodeFailReturn
    /\ pc' = "connClose"
    /\ UNCHANGED <<conn, connOpen, status, rd, sendVal, syncChanClosed,
                   closeCount, acceptCount, exitReason, cancelSeen, lnOpen,
                   backlog>>
    /\ envUnchanged

\* Mutant of Switch: the sends of the three non-terminal states do not wait
\* for the consumer, the value is dropped when nobody is receiving.
Switch_NonBlocking ==
    /\ pc = "switch"
    /\ IF status = "stopped"
       THEN sendVal' = StateOf(status) /\ pc' = "send"
       ELSE sendVal' = 0 /\ pc' = "connSelect"
    /\ UNCHANGED <<shouldExit, conn, connOpen, status, rd, syncChanClosed,
                   closeCount, acceptCount, exitReason, cancelSeen, lnOpen,
                   backlog>>
    /\ envUnchanged

\* Mutant of Switch: the default case returns true like a decode error.
Switch_UnknownFatal ==
    /\ pc = "switch"
    /\ IF StateOf(status) # 0
       THEN sendVal' = StateOf(status) /\ pc' = "send" /\ UNCHANGED shouldExit
       ELSE sendVal' = 0 /\ pc' = "connClose" /\ shouldExit' = TRUE
    /\ UNCHANGED <<conn, connOpen, status, rd, syncChanClosed,
                   closeCount, acceptCount, exitReason, cancelSeen, lnOpen,
                   backlog>>
    /\ envUnchanged

\* sync.go:84-97: the switch. A recognized status starts a send on syncChan;
\* any other value is logged and the loop iterates.
Switch ==
    /\ pc = "switch"
    /\ IF StateOf(status) # 0
       THEN sendVal' = StateOf(status) /\ pc' = "send"
       ELSE sendVal' = 0 /\ pc' = "connSelect"
    /\ UNCHANGED <<shouldExit, conn, connOpen, status, rd, syncChanClosed,
                   closeCount, acceptCount, exitReason, cancelSeen, lnOpen,
                   backlog>>
    /\ envUnchanged

\* Mutant of AfterSendPc: the return after the send of StateExited left out.
AfterSendPc_NoReturn == "connSelect"

\* sync.go:86,88,90,92-94: syncChan <- State completes when the consumer
\* receives (the channel is unbuffered). After StateExited: return true;
\* after the other three the loop iterates. A send on a closed channel
\* panics; lateOp records it.
AfterSendPc == IF sendVal = StateExited THEN "connClose" ELSE "connSelect"

SendRecv ==
    /\ pc = "send"
    /\ received' = Append(received, sendVal)
    /\ recvIdx' = Append(recvIdx, rd)
    /\ lateOp' = (lateOp \/ syncChanClosed)
    /\ sendVal' = 0
    /\ pc' = AfterSendPc
    /\ shouldExit' = IF sendVal = StateExited THEN TRUE ELSE shouldExit
    /\ UNCHANGED <<conn, connOpen, status, rd, syncChanClosed, closeCount,
                   acceptCount, exitReason, cancelSeen, lnOpen, backlog>>
    /\ UNCHANGED callerVars
    /\ UNCHANGED peerVars

\* Mutant of ConnClose: syncOnConn returns without closing conn.
ConnClose_Leak ==
    /\ pc = "connClose"
    /\ pc' = "loopCheck"
    /\ UNCHANGED <<shouldExit, conn, connOpen, status, rd, sendVal,
                   syncChanClosed, closeCount, acceptCount, exitReason,
                   cancelSeen, lnOpen, backlog>>
    /\ envUnchanged

\* sync.go:68: the deferred conn.Close() of syncOnConn, on every return.
ConnClose ==
    /\ pc = "connClose"
    /\ connOpen' = FALSE
    /\ pc' = "loopCheck"
    /\ UNCHANGED <<shouldExit, conn, status, rd, sendVal, syncChanClosed,
                   closeCount, acceptCount, exitReason, cancelSeen, lnOpen,
                   backlog>>
    /\ envUnchanged

\* sync.go:53-57: if shouldExit return, else the next iteration of the loop.
LoopCheck ==
    /\ pc = "loopCheck"
    /\ IF shouldExit
       THEN pc' = "lnClose" /\ exitReason' = "decoder"
       ELSE pc' = "select" /\ UNCHANGED exitReason
    /\ UNCHANGED <<shouldExit, conn, connOpen, status, rd, sendVal,
                   syncChanClosed, closeCount, acceptCount, cancelSeen, lnOpen,
                   backlog>>
    /\ envUnchanged

\* sync.go:40: the deferred ln.Close(), the first of the two defers to run.
\* Connections still waiting in the backlog are dropped with the listener.
LnClose ==
    /\ pc = "lnClose"
    /\ lnOpen' = FALSE
    /\ backlog' = <<>>
    /\ pc' = "closeChan"
    /\ UNCHANGED <<shouldExit, conn, connOpen, status, rd, sendVal,
                   syncChanClosed, closeCount, acceptCount, exitReason,
                   cancelSeen>>
    /\ envUnchanged

\* Mutant of CloseChan: close(syncChan) run at the end of an iteration of
\* the accept loop instead of deferred, the loop going on.
CloseChan_InLoop ==
    /\ pc = "closeChan"
    /\ syncChanClosed' = TRUE
    /\ closeCount' = closeCount + 1
    /\ pc' = "select"
    /\ UNCHANGED <<shouldExit, conn, connOpen, status, rd, sendVal,
                   acceptCount, exitReason, cancelSeen, lnOpen, backlog>>
    /\ envUnchanged

\* sync.go:39: the deferred close(syncChan), the last to run; the goroutine
\* ends.
CloseChan ==
    /\ pc = "closeChan"
    /\ syncChanClosed' = TRUE
    /\ closeCount' = closeCount + 1
    /\ pc' = "done"
    /\ UNCHANGED <<shouldExit, conn, connOpen, status, rd, sendVal,
                   acceptCount, exitReason, cancelSeen, lnOpen, backlog>>
    /\ envUnchanged

(* ------------------------------------------------------------------ peers *)

\* The server end of p's connection still exists: p waits in the backlog of
\* the open listener, or p was accepted and conn.Close() has not run.
Reachable(p) ==
    \/ lnOpen /\ \E i \in 1..Len(backlog) : backlog[i] = p
    \/ conn = p /\ connOpen

EndsPartial(p) == wire[p] # <<>> /\ wire[p][Len(wire[p])] = "partial"

\* A peer connects to the socket; the connection waits to be accepted.
PeerConnect(p) ==
    /\ lnOpen
    /\ peerSt[p] = "idle"
    /\ p = FirstPeer \/ peerSt[FirstPeer] # "idle"
    /\ peerSt' = [peerSt EXCEPT ![p] = "open"]
    /\ backlog' = Append(backlog, p)
    /\ UNCHANGED wire
    /\ UNCHANGED <<pc, shouldExit, conn, connOpen, status, rd, sendVal,
                   syncChanClosed, closeCount, acceptCount, exitReason,
                   cancelSeen, lnOpen>>
    /\ UNCHANGED chanVars
    /\ UNCHANGED callerVars

\* A connected peer writes one more token.
CanWrite(p, tok) ==
    IF p = FirstPeer
    THEN Len(wire[p]) < MaxMsgs
    ELSE wire[p] = <<>> /\ tok = "running"

PeerWrite(p, tok) ==
    /\ peerSt[p] = "open"
    /\ Reachable(p)
    /\ ~EndsPartial(p)
    /\ CanWrite(p, tok)
    /\ wire' = [wire EXCEPT ![p] = Append(@, tok)]
    /\ UNCHANGED peerSt
    /\ UNCHANGED taskVars
    /\ UNCHANGED chanVars
    /\ UNCHANGED callerVars

\* A peer writes the rest of the object it had begun: the object comes out
\* well-formed or not, its first byte is the opening brace either way.
PeerComplete(p, tok) ==
    /\ peerSt[p] = "open"
    /\ Reachable(p)
    /\ EndsPartial(p)
    /\ wire' = [wire EXCEPT ![p] = [@ EXCEPT ![Len(@)] = tok]]
    /\ UNCHANGED peerSt
    /\ UNCHANGED taskVars
    /\ UNCHANGED chanVars
    /\ UNCHANGED callerVars

\* A peer closes its end of the connection.
PeerClose(p) ==
    /\ p = FirstPeer
    /\ peerSt[p] = "open"
    /\ Reachable(p)
    /\ peerSt' = [peerSt EXCEPT ![p] = "closed"]
    /\ UNCHANGED wire
    /\ UNCHANGED taskVars
    /\ UNCHANGED chanVars
    /\ UNCHANGED callerVars

(* ------------------------------------------------------------------- spec *)

\* The steps the goroutine takes by itself once it can.
TaskStep ==
    \/ LoopSelect
    \/ Accept
    \/ ConnSelect
    \/ DecMore
    \/ DecodeOk
    \/ DecodeFail
    \/ Switch
    \/ ConnClose
    \/ LoopCheck
    \/ LnClose
    \/ CloseChan

Next ==
    \/ ObserveStateOk
    \/ ObserveStateBindFail
    \/ Cancel
    \/ LoopSelect
    \/ Accept
    \/ AcceptFail
    \/ ConnSelect
    \/ DecMore
    \/ DecodeOk
    \/ DecodeFail
    \/ Switch
    \/ SendRecv
    \/ ConnClose
    \/ LoopCheck
    \/ LnClose
    \/ CloseChan
    \/ \E p \in Peers : PeerConnect(p)
    \/ \E p \in Peers, tok \in Tokens : PeerWrite(p, tok)
    \/ \E p \in Peers, tok \in FullTokens \ {"closer"} : PeerComplete(p, tok)
    \/ \E p \in Peers : PeerClose(p)

Spec == Init /\ [][Next]_vars

\* A runnable goroutine is eventually scheduled. Nothing is assumed of the
\* caller, the peers or the consumer.
FairSpec == Spec /\ WF_vars(TaskStep)

(* ----------------------------------------------------- words of the claims *)

\* The mapping as the specification states it.
Mapped(tok) ==
    CASE tok = "creating" -> StateCreating
      [] tok = "created"  -> StateCreated
      [] tok = "running"  -> StateRunning
      [] tok = "stopped"  -> StateExited

MappedSeq(s) == [i \in 1..Len(s) |-> Mapped(s[i])]

NonTerminal == {"creating", "created", "running"}

\* The tokens of the accepted connection, and those the decoder has consumed.
Wire == IF conn = NoPeer THEN <<>> ELSE wire[conn]
Consumed == SubSeq(Wire, 1, rd)

\* 1 while the state of the last decoded message is not yet handed over.
Pending == IF pc \in {"switch", "send"} THEN 1 ELSE 0

\* The goroutine is inside syncOnConn's loop.
InDecoder == pc \in {"connSelect", "more", "decode", "switch", "send"}

\* The goroutine is on its way out of the accept loop, or gone.
Leaving == pc \in {"lnClose", "closeChan", "done"}

Count(s, v) == Cardinality({i \in 1..Len(s) : s[i] = v})

(* --------------------------------------------------------------------- C1 *)

\* C1: the stream is closed at most once, by the goroutine's deferred close
\* alone, and only after the accept loop returned for one of cancellation
\* observed, accept failure or a true result of the decoder; nothing is sent
\* on or delivered from the stream once it is closed.
C1_ClosedOnceNothingAfter ==
    /\ closeCount <= 1
    /\ syncChanClosed <=> closeCount = 1
    /\ ~lateOp
    /\ syncChanClosed =>
        /\ pc = "done"
        /\ sendVal = 0
        /\ exitReason \in {"cancel", "accept", "decoder"}
        /\ exitReason = "cancel" => ctxDone
        /\ exitReason = "decoder" => shouldExit /\ acceptCount = 1
        /\ exitReason = "accept" => acceptCount = 0
    /\ exitReason # "none" => Leaving

\* C1 witness: a stream closed after the decoder ended the session, with
\* values delivered before the closure.
C1_Witness ==
    /\ syncChanClosed
    /\ exitReason = "decoder"
    /\ Len(received) >= 2

(* --------------------------------------------------------------------- C2 *)

\* C2: while every message on the accepted connection is creating, created
\* or running, the consumer has received exactly the mapped states of the
\* messages handed over so far, in wire order (so always a prefix of the
\* mapped sequence, and all of it once every message is handed over), and,
\* no cancellation having fired, connection and stream are open.
C2_NonTerminalInOrder ==
    (conn # NoPeer /\ \A i \in 1..Len(Wire) : Wire[i] \in NonTerminal) =>
        /\ rd - Pending >= 0
        /\ received = MappedSeq(SubSeq(Wire, 1, rd - Pending))
        /\ pc = "send" => sendVal = Mapped(Wire[rd])
        /\ recvIdx = [i \in 1..Len(received) |-> i]
        /\ ~ctxDone => (InDecoder /\ connOpen /\ lnOpen /\ ~syncChanClosed)

\* C2 witness: three messages, out of lifecycle order and with a repeat, all
\* delivered, the stream open.
C2_Witness ==
    /\ conn # NoPeer
    /\ Wire = <<"running", "created", "running">>
    /\ received = <<StateRunning, StateCreated, StateRunning>>
    /\ ~syncChanClosed
    /\ ~ctxDone

(* --------------------------------------------------------------------- C3 *)

\* The last message the decoder consumed is stopped.
StoppedDecoded == conn # NoPeer /\ rd > 0 /\ Wire[rd] = "stopped"

\* C3: once stopped is decoded the decoder consumes nothing more. Until the
\* consumer takes it, no Exited has been delivered; afterwards exactly one
\* Exited has, it is the last value, it stems from the stopped message, the
\* goroutine is on the return path with shouldExit true, each step of that
\* path is one it can take by itself, and the path ends with the stream
\* closed. No delivered value stems from a message after stopped.
C3_StoppedIsFinal ==
    StoppedDecoded =>
        /\ pc \in {"switch", "send", "connClose", "loopCheck"} \/ Leaving
        /\ pc \in {"switch", "send"} => Count(received, StateExited) = 0
        /\ pc \notin {"switch", "send"} =>
            /\ received # <<>>
            /\ received[Len(received)] = StateExited
            /\ Count(received, StateExited) = 1
            /\ recvIdx[Len(recvIdx)] = rd
            /\ shouldExit
            /\ pc # "done" => ENABLED TaskStep
            /\ pc = "done" => syncChanClosed /\ exitReason = "decoder"
        /\ \A i \in 1..Len(recvIdx) : recvIdx[i] <= rd
        /\ \A i \in 1..(rd - 1) : Wire[i] # "stopped"

\* C3 witness: Exited delivered last, the stream closed, and a message the
\* peer wrote after stopped left unread.
C3_Witness ==
    /\ StoppedDecoded
    /\ syncChanClosed
    /\ received = <<StateCreating, StateExited>>
    /\ Len(Wire) > rd

(* --------------------------------------------------------------------- C4 *)

\* The peer closed its end with nothing unread: end of input between two
\* messages.
CleanEof == conn # NoPeer /\ connOpen /\ Unread = <<>> /\ PeerGone

\* C4: when the decoder finds the end of input between two messages it
\* reports the connection exhausted: its next step is the return of true,
\* which makes the accept loop exit and close the stream.
C4_EofEndsSession ==
    [][(pc = "more" /\ CleanEof /\ pc' # pc) =>
            (pc' = "connClose" /\ shouldExit')]_vars

\* C4, the same as a liveness property: after a clean end of input the
\* stream is eventually closed.
C4_EofLeadsToClose == (CleanEof /\ InDecoder /\ Pending = 0) ~> syncChanClosed

(* --------------------------------------------------------------------- C5 *)

\* Cancellation fired before any connection was accepted, in a session that
\* started.
CancelledEarly == cancelEarly /\ ret = "chan"

\* C5 as claimed: after a cancellation before any accept the stream gets
\* closed with nothing delivered; the goroutine never comes to rest with the
\* stream open.
C5_EarlyCancelCloses ==
    (CancelledEarly /\ ~ENABLED TaskStep) =>
        (syncChanClosed /\ received = <<>>)

\* C5 amended: after a cancellation before any accept nothing is decoded,
\* sent or delivered; the goroutine comes to rest only with the stream
\* closed or inside ln.Accept() with no connection pending, and when it has
\* ended the stream is closed by the cancellation or the accept-failure
\* return.
C5_EarlyCancelNoValues ==
    CancelledEarly =>
        /\ received = <<>>
        /\ sendVal = 0
        /\ rd = 0
        /\ pc \notin {"more", "decode", "switch", "send"}
        /\ ~ENABLED TaskStep =>
            \/ syncChanClosed /\ pc = "done"
            \/ pc = "accept" /\ backlog = <<>>
        /\ pc = "done" => syncChanClosed /\ exitReason \in {"cancel", "accept"}

\* C5 witness: cancelled before the accept, a connection accepted afterwards
\* that carries messages, the stream closed with nothing delivered.
C5_Witness ==
    /\ CancelledEarly
    /\ acceptCount = 1
    /\ Len(Wire) >= 2
    /\ syncChanClosed
    /\ received = <<>>

(* --------------------------------------------------------------------- C6 *)

\* C6: a cancellation that falls between two messages of an open connection
\* closes the stream: the goroutine does not come to rest, cancelled, with
\* the connection open, a message consumed and delivered, nothing unread and
\* nothing left to hand over.
C6_CancelBetweenMessagesCloses ==
    (/\ ctxDone
     /\ connOpen
     /\ rd >= 1
     /\ received # <<>>
     /\ Unread = <<>>
     /\ Pending = 0
     /\ ~ENABLED TaskStep) => syncChanClosed

\* C6, the part about a cancellation the decoder has observed: from then on
\* nothing is sent, every message consumed before with a recognized status
\* was delivered, the goroutine walks the return path by itself and ends
\* with connection, listener and stream closed.
C6_AfterCancelSeen ==
    cancelSeen =>
        /\ pc \in {"connClose", "loopCheck", "select"} \/ Leaving
        /\ sendVal = 0
        /\ Len(recvIdx) <= rd
        /\ \A i \in 1..rd :
            Wire[i] \in Recognized => \E j \in 1..Len(recvIdx) : recvIdx[j] = i
        /\ pc # "done" => ENABLED TaskStep
        /\ pc = "done" => syncChanClosed /\ ~connOpen /\ ~lnOpen

(* --------------------------------------------------------------------- C7 *)

\* The next unread bytes cannot be decoded: invalid bytes, or an object cut
\* short by the end of input.
HeadUndecodable ==
    /\ Unread # <<>>
    /\ \/ Head(Unread) \in {"malformed", "closer"}
       \/ Head(Unread) = "partial" /\ PeerGone

\* C7: the decoder leaves an undecodable message only by returning true,
\* with nothing delivered for it.
C7_UndecodableEndsSession ==
    [][(pc \in {"more", "decode"} /\ HeadUndecodable
            /\ pc' \notin {"more", "decode"}) =>
        (pc' = "connClose" /\ shouldExit' /\ received' = received
            /\ sendVal' = 0)]_vars

\* C7, the part about messages on which dec.Decode is called and fails: the
\* decoder returns true, nothing is delivered for the message, the earlier
\* messages with a status of creating, created or running were delivered in
\* wire order.
C7_DecodeErrorEndsSession ==
    [][(pc = "decode" /\ HeadUndecodable /\ pc' # pc) =>
        /\ pc' = "connClose"
        /\ shouldExit'
        /\ received' = received
        /\ sendVal' = 0
        /\ rd' = rd
        /\ (\A i \in 1..rd : Wire[i] \in NonTerminal) =>
                received = MappedSeq(Consumed)]_vars

(* --------------------------------------------------------------------- C8 *)

IsNonTerminal(tok) == tok \in NonTerminal

\* C8: with only creating, created, running and unrecognized statuses on the
\* accepted connection and an unrecognized one already decoded, the consumer
\* has received exactly the mapped states of the recognized messages handed
\* over so far, none for an unrecognized one, and, no cancellation having
\* fired, the decoder goes on reading with connection, listener and stream
\* open.
C8_UnrecognizedIsSkipped ==
    (/\ conn # NoPeer
     /\ \A i \in 1..Len(Wire) : Wire[i] \in NonTerminal \cup {"weird"}
     /\ \E i \in 1..rd : Wire[i] = "weird") =>
        /\ received =
            MappedSeq(SelectSeq(SubSeq(Wire, 1, rd - Pending), IsNonTerminal))
        /\ \A j \in 1..Len(recvIdx) : Wire[recvIdx[j]] # "weird"
        /\ pc = "send" => Wire[rd] # "weird"
        /\ ~ctxDone => (InDecoder /\ connOpen /\ lnOpen /\ ~syncChanClosed)

\* C8 witness: weird, created yields only Created, the decoder waiting for
\* more input on the open connection.
C8_Witness ==
    /\ conn # NoPeer
    /\ Wire = <<"weird", "created">>
    /\ received = <<StateCreated>>
    /\ pc = "more"
    /\ connOpen
    /\ ~syncChanClosed

(* --------------------------------------------------------------------- C9 *)

\* C9: ln.Accept() succeeds at most once in a session: the goroutine is
\* never again in Accept after a connection was accepted, it is back at the
\* accept loop's select only with ctx cancelled, and the second peer is never
\* the accepted one.
C9_OneAccept ==
    /\ acceptCount <= 1
    /\ pc = "accept" => acceptCount = 0
    /\ (pc = "select" /\ acceptCount = 1) => (ctxDone /\ cancelSeen)
    /\ conn \in {NoPeer, FirstPeer}
    /\ acceptCount = 1 <=> conn = FirstPeer

\* C9 witness: a second peer connected and wrote while the first connection
\* was served; the session ended without it being accepted.
C9_Witness ==
    /\ acceptCount = 1
    /\ pc = "done"
    /\ peerSt["p2"] = "open"
    /\ wire["p2"] # <<>>
    /\ received # <<>>

(* -------------------------------------------------------------------- C10 *)

\* C10: wherever the stream is closed the listener is released and no
\* accepted connection is open; the connection is closed before the
\* goroutine leaves the accept loop on any return.
C10_ReleasedBeforeClose ==
    /\ syncChanClosed => (~lnOpen /\ ~connOpen)
    /\ Leaving => ~connOpen
    /\ pc = "closeChan" => ~lnOpen
    /\ pc = "done" => (syncChanClosed /\ ~lnOpen /\ ~connOpen)
    /\ connOpen => (lnOpen /\ (InDecoder \/ pc = "connClose"))

\* C10 witness: the cancellation return after a connection was accepted:
\* stream closed, listener and connection released.
C10_Witness ==
    /\ syncChanClosed
    /\ acceptCount = 1
    /\ exitReason = "cancel"
    /\ ~lnOpen
    /\ ~connOpen

(* -------------------------------------------------------------------- C11 *)

\* C11: when ObserveState returned an error nothing was started: no listener,
\* no goroutine, nothing accepted, sent or closed, no peer connected. And an
\* error is returned for the bind failure alone: wherever the goroutine
\* exists, also after an accept failure or a true result of the decoder, the
\* caller holds the stream and no error.
C11_ErrorOnlyFromBind ==
    /\ ret = "err" =>
        /\ pc = "none"
        /\ ~lnOpen
        /\ acceptCount = 0
        /\ conn = NoPeer
        /\ backlog = <<>>
        /\ \A p \in Peers : peerSt[p] = "idle"
        /\ received = <<>>
        /\ sendVal = 0
        /\ ~syncChanClosed
        /\ closeCount = 0
        /\ exitReason = "none"
    /\ pc # "none" => ret = "chan"
    /\ exitReason # "none" => ret = "chan"
    /\ syncChanClosed => ret = "chan"
    /\ ret = "none" => pc = "none"

\* C11 witness: the bind failed and the caller cancelled afterwards; nothing
\* ever ran.
C11_Witness ==
    /\ ret = "err"
    /\ ctxDone
    /\ pc = "none"

(* -------------------------------------------------------------------- C12 *)

\* The messages consumed so far that carry a recognized status.
RecognizedDecoded == Cardinality({i \in 1..rd : Wire[i] \in Recognized})

\* C12: the send is a handshake. The decoder is at its select, in dec.More()
\* or in dec.Decode only with no send open and every recognized message
\* consumed so far delivered; a value is in the send exactly while the
\* goroutine waits in it, and it is the one of the message consumed last; the
\* recognized messages decoded outnumber the states received by at most one.
C12_Handshake ==
    /\ (pc = "send") <=> (sendVal # 0)
    /\ RecognizedDecoded <= Len(received) + 1
    /\ pc \in {"connSelect", "more", "decode"} =>
        /\ sendVal = 0
        /\ RecognizedDecoded <= Len(received)
        /\ \A i \in 1..rd :
            Wire[i] \in Recognized => \E j \in 1..Len(recvIdx) : recvIdx[j] = i
    /\ RecognizedDecoded > Len(received) =>
        /\ pc \in {"switch", "send"}
        /\ Wire[rd] \in Recognized
    /\ \A j \in 1..Len(recvIdx) : recvIdx[j] <= rd - Pending

\* C12 witness: the goroutine waits in the send of the second state while the
\* peer's third message lies unread.
C12_Witness ==
    /\ pc = "send"
    /\ Len(received) = 1
    /\ rd = 2
    /\ Len(Wire) = 3
    /\ Wire[3] \in Recognized

(* -------------------------------------------------------------------- C13 *)

\* C13: after a failed ln.Accept() the goroutine is on its return: it is
\* never back at the select or in Accept, no connection was accepted, nothing
\* was sent or delivered, each remaining step is one it takes by itself, it
\* ends with the listener released and the stream closed, and the caller
\* holds the stream and no error.
C13_AcceptErrorEndsSession ==
    exitReason = "accept" =>
        /\ Leaving
        /\ acceptCount = 0
        /\ conn = NoPeer
        /\ received = <<>>
        /\ sendVal = 0
        /\ ret = "chan"
        /\ pc # "done" => ENABLED TaskStep
        /\ pc \in {"closeChan", "done"} => ~lnOpen
        /\ pc = "done" => (syncChanClosed /\ closeCount = 1)

\* C13 witness: accept failed while a peer was waiting with a message
\* written; the session ended with the stream closed and nothing delivered.
C13_Witness ==
    /\ exitReason = "accept"
    /\ pc = "done"
    /\ syncChanClosed
    /\ ~lnOpen
    /\ wire[FirstPeer] # <<>>
    /\ received = <<>>

(* -------------------------------------------------------------------- C14 *)

\* C14: when syncOnConn's select has taken ctx.Done() the decoder has sent
\* nothing more, closes the connection and hands true to the accept loop.
C14_CancelReturnsTrue ==
    cancelSeen =>
        /\ sendVal = 0
        /\ pc # "connClose" => ~connOpen
        /\ shouldExit

(* -------------------------------------------------------------------- C15 *)

\* C15: every delivered state stems from a message that carries a recognized
\* status itself and is the mapped state of that status, and no message has
\* two states delivered for it.
C15_OwnStatusOnly ==
    /\ \A j \in 1..Len(received) :
        /\ recvIdx[j] \in 1..Len(Wire)
        /\ Wire[recvIdx[j]] \in Recognized
        /\ received[j] = Mapped(Wire[recvIdx[j]])
    /\ \A j, k \in 1..Len(recvIdx) : j < k => recvIdx[j] < recvIdx[k]

(* -------------------------------------------------------------------- C16 *)

\* C16: a delivered Exited stems from a stopped message and is the last
\* value; at most one is delivered; one has been delivered exactly when the
\* stopped message is decoded and handed over, so a session that ends without
\* a decoded stopped (cancellation, accept failure, decode failure) has
\* delivered none.
C16_ExitedOnlyFromStopped ==
    /\ Count(received, StateExited) <= 1
    /\ \A j \in 1..Len(received) :
        received[j] = StateExited =>
            /\ j = Len(received)
            /\ Wire[recvIdx[j]] = "stopped"
    /\ Count(received, StateExited) = 1 <=> (StoppedDecoded /\ Pending = 0)
    /\ (Count(received, StateExited) = 1) => (shouldExit /\ ~InDecoder)
    /\ exitReason \in {"cancel", "accept"} => Count(received, StateExited) = 0
    /\ sendVal = StateExited => (StoppedDecoded /\ pc = "send")

\* C16 witness: a session with states delivered that ended on a decode error
\* without Exited.
C16_Witness ==
    /\ pc = "done"
    /\ exitReason = "decoder"
    /\ ~StoppedDecoded
    /\ Len(received) = 2
    /\ Count(received, StateExited) = 0

(* -------------------------------------------------------------------- C17 *)

\* C17: a goroutine that waits in the send with ctx cancelled is not stuck:
\* it has a step it can take by itself.
C17_CancelFreesSend ==
    (ctxDone /\ pc = "send") => ENABLED TaskStep

\* C17, what holds instead: the goroutine leaves the send only by the
\* consumer's receive, and while it waits listener and connection stay open
\* and the stream stays open.
C17_SendWaitsForConsumer ==
    /\ pc = "send" => (lnOpen /\ connOpen /\ ~syncChanClosed /\ ~ENABLED TaskStep)
    /\ [][(pc = "send" /\ pc' # "send") => Len(received') = Len(received) + 1]_vars

====
